---------------------------- MODULE Spec2Model ----------------------------
(***************************************************************************)
(* Model of src/src/sevices.js: initServices(config) and the three         *)
(* service methods it returns (getWelcomeMessage, healthCheck, clearCache) *)
(* with the internal helper fetchWithTimeout.                              *)
(*                                                                         *)
(* The service runs on the JavaScript event loop.  One action of the model *)
(* is one run-to-completion task of the loop: a public method invoked by   *)
(* the embedding application (up to its first await), the arrival of the   *)
(* response headers, of the response body, a network failure, or the       *)
(* firing of the timeout timer, each together with the promise             *)
(* continuations (microtasks) it triggers.  Time is Date.now() in abstract *)
(* ticks.                                                                  *)
(***************************************************************************)
EXTENDS Integers, Sequences, FiniteSets, TLC

(***************************************************************************)
(* Bounds of the model.                                                    *)
(***************************************************************************)
MaxCalls == 2        \* invocations of getWelcomeMessage / healthCheck
MaxTime == 2         \* last value of the clock
MaxTimeout == 1      \* cfg.timeoutMs ranges over 1..MaxTimeout
MaxTtl == 1          \* cfg.cacheTtlMs ranges over 1..MaxTtl

CallIds == 1..MaxCalls

(***************************************************************************)
(* JavaScript values that flow through the service.  A value is a record   *)
(* [t, v]: its type tag and its text.                                      *)
(***************************************************************************)
Str(s) == [t |-> "string", v |-> s]
Null == [t |-> "null", v |-> ""]
Undefined == [t |-> "undefined", v |-> ""]
Obj(m) == [t |-> "object", message |-> m]

\* JavaScript truthiness (ToBoolean) of a value.
Truthy(x) ==
    CASE x.t = "string" -> x.v # ""
      [] x.t = "number" -> x.v \notin {"0", "NaN"}
      [] x.t = "null" -> FALSE
      [] x.t = "undefined" -> FALSE
      [] OTHER -> TRUE

\* a number, by its decimal text; NaN
Num(n) == [t |-> "number", v |-> ToString(n)]
NaN == [t |-> "number", v |-> "NaN"]

\* a && b, a || b
And(a, b) == IF Truthy(a) THEN b ELSE a
Or(a, b) == IF Truthy(a) THEN a ELSE b

\* data.message for a non-null data: the own property, or undefined.
GetMessage(data) == IF data.t = "object" THEN data.message ELSE Undefined


(***************************************************************************)
(* What the endpoint can answer.                                           *)
(***************************************************************************)
Statuses == {200, 404}
BodyHi == "{\"message\":\"Hi there\"}"
BodyNoMessage == "{}"
BodyEmptyMessage == "{\"message\":\"\"}"
BodyNull == "null"
BodyHtml == "<html>"
\* bodies of a GET that succeeded
Bodies == {BodyHi, BodyNoMessage, BodyEmptyMessage, BodyNull, BodyHtml}
\* bodies of an error response
ErrBodies == {"Not Found"}
\* messages of the TypeError a failed fetch rejects with
NetMessages == {"fetch failed", ""}
ApiUrls == {"https://api.example.com/welcome"}

\* A response body as the service holds it: not read, read, or failed to read.
ReadFailed == [t |-> "error", v |-> "read failed"]

\* JSON.parse on the bodies above: [ok, data]; ok = FALSE is a SyntaxError.
ParseJson(body) ==
    CASE body = BodyHi -> [ok |-> TRUE, data |-> Obj(Str("Hi there"))]
      [] body = BodyNoMessage -> [ok |-> TRUE, data |-> Obj(Undefined)]
      [] body = BodyEmptyMessage -> [ok |-> TRUE, data |-> Obj(Str(""))]
      [] body = BodyNull -> [ok |-> TRUE, data |-> Null]
      [] OTHER -> [ok |-> FALSE, data |-> Undefined]

(***************************************************************************)
(* Promise outcomes and errors.                                            *)
(***************************************************************************)
Pending == [kind |-> "none", val |-> Undefined]
Resolved(x) == [kind |-> "resolved", val |-> x]
Rejected(e) == [kind |-> "rejected", val |-> e]
Err(n, m) == [name |-> n, message |-> m]
\* controller.abort() without a reason rejects the fetch with this DOMException
AbortError == Err("AbortError", "This operation was aborted")

(***************************************************************************)
(* State.                                                                  *)
(***************************************************************************)
VARIABLES
    input,        \* what initServices is built from: process.env and the
                  \* config argument; "none" once the service runs
    cfg,          \* the effective configuration (line 20)
    cache,        \* the cache slot (line 21)
    clock,        \* Date.now()
    calls,        \* one activation record per invocation of an async method
    fetchedAt,    \* history: when the latest successful fetch of
                  \* getWelcomeMessage completed, -1 if none since the
                  \* service was built or clearCache last ran
    justCleared   \* history: the last task run was clearCache

vars == <<input, cfg, cache, clock, calls, fetchedAt, justCleared>>

\* cache = { value: null, expiresAt: 0 } (lines 21 and 63)
EmptyCache == [value |-> Null, expiresAt |-> 0]

\* what the slot is to a reader at time t
SlotState(c, t) ==
    IF c.value = Null THEN "empty"
    ELSE IF c.expiresAt > t THEN "fresh" ELSE "stale"

\* An activation record.  op, force, now, method, status, body, fetched and
\* result are the invocation's own values; pc is where it stands; timer and
\* aborted are its timer and its AbortController.  A value is kept as long
\* as the code can still read it: now to line 47 in getWelcomeMessage, and
\* as the start of the timer (line 25) to line 28 in healthCheck.  The rest
\* is history: requested (fetch was called), before (the slot as it was
\* when the task that settled the call began) and, kept until the response
\* arrives, force (read last at line 41), saw (what the slot was at the
\* invocation) and afterClear (the invocation followed clearCache at once).
IdleCall ==
    [op |-> "none", force |-> FALSE, now |-> 0, saw |-> "empty",
     pc |-> "idle", timer |-> FALSE, aborted |-> FALSE, requested |-> FALSE,
     method |-> "", status |-> 0, body |-> Undefined,
     fetched |-> Pending, result |-> Pending, afterClear |-> FALSE,
     before |-> EmptyCache]

\* the record of an invocation whose caller has received its outcome
ReturnedCall == [IdleCall EXCEPT !.pc = "returned"]

Init ==
    /\ input = "none"
    /\ cfg \in [apiUrl : ApiUrls, timeoutMs : 1..MaxTimeout, cacheTtlMs : 1..MaxTtl]
    /\ cache = EmptyCache
    /\ clock = 0
    /\ calls = [i \in CallIds |-> IdleCall]
    /\ fetchedAt = -1
    /\ justCleared = FALSE

\* the next unused activation record
NextId(i) ==
    /\ calls[i].pc = "idle"
    /\ \A k \in CallIds : k < i => calls[k].pc # "idle"

\* No settled promise is waiting for its caller's continuation: the event
\* loop runs the microtasks of a task before it takes the next task.
Quiet == \A i \in CallIds : calls[i].pc # "done"

(***************************************************************************)
(* Construction (lines 13-20).  process.env is read once, when the module  *)
(* is loaded, into DEFAULT_CONFIG; initServices(config) spreads the        *)
(* config argument over it.                                                *)
(***************************************************************************)
DefaultApiUrl == "https://api.example.com/welcome"
DefaultTimeoutMs == 5000
DefaultCacheTtlMs == 30000

\* the marker of a property an object does not have
Absent == [t |-> "absent", v |-> ""]

\* numbers an environment variable can spell
EnvNumbers == {0, 250}
\* what an environment variable can hold: unset, or a string
EnvValues == {Undefined, Str("abc")} \cup {Str(ToString(n)) : n \in EnvNumbers}
\* what a property of the config argument can be
ArgValues == {Absent, Undefined, NaN, Str("abc"), Num(100)}

Envs ==
    [WELCOME_API_URL : {Undefined, Str("http://env/welcome")},
     SERVICE_TIMEOUT_MS : EnvValues, CACHE_TTL_MS : EnvValues]
Args ==
    [apiUrl : {Absent, Str("http://arg/welcome")},
     timeoutMs : ArgValues, cacheTtlMs : ArgValues]

\* Number(x) for the values above: ToNumber of undefined is NaN, of the
\* empty string 0, of a decimal numeral its number, of other text NaN
ToNumber(x) ==
    CASE x.t = "number" -> x
      [] x.t = "undefined" -> NaN
      [] x.t = "null" -> Num(0)
      [] x.t = "string" ->
            IF x.v = "" THEN Num(0)
            ELSE IF \E n \in EnvNumbers : x.v = ToString(n)
                 THEN [t |-> "number", v |-> x.v]
                 ELSE NaN
      [] OTHER -> NaN

\* lines 13-17: DEFAULT_CONFIG
DEFAULT_CONFIG(env) ==
    [apiUrl |-> Or(env.WELCOME_API_URL, Str(DefaultApiUrl)),
     timeoutMs |-> Or(ToNumber(env.SERVICE_TIMEOUT_MS), Num(DefaultTimeoutMs)),
     cacheTtlMs |-> Or(ToNumber(env.CACHE_TTL_MS), Num(DefaultCacheTtlMs))]

\* { ...base, ...over }: the own properties of over replace those of base
Spread(base, over) ==
    [k \in DOMAIN base |-> IF over[k] # Absent THEN over[k] ELSE base[k]]

\* line 20: cfg = { ...DEFAULT_CONFIG, ...config }
InitServices(env, config) == Spread(DEFAULT_CONFIG(env), config)

\* the configuration of a service that is not built yet
Unbuilt == [apiUrl |-> Absent, timeoutMs |-> Absent, cacheTtlMs |-> Absent]

\* The module has been loaded in some environment and the application is
\* about to call initServices with some argument.
InitLoad ==
    /\ input \in [env : Envs, arg : Args]
    /\ cfg = Unbuilt
    /\ cache = EmptyCache
    /\ clock = 0
    /\ calls = [i \in CallIds |-> IdleCall]
    /\ fetchedAt = -1
    /\ justCleared = FALSE

\* The application calls initServices(config): lines 19-21.
Construct ==
    /\ cfg = Unbuilt
    /\ cfg' = InitServices(input.env, input.arg)
    /\ UNCHANGED <<input, cache, clock, calls, fetchedAt, justCleared>>

SpecConstruct == InitLoad /\ [][Construct]_vars

(***************************************************************************)
(* fetchWithTimeout (lines 23-37).                                         *)
(***************************************************************************)
\* a timer set in the wrong unit
TimerDeadlineInSeconds(t) == t + cfg.timeoutMs * 1000

\* line 25: the instant the timer set at time t fires
TimerDeadline(t) == t + cfg.timeoutMs

\* a status check with no upper limit
ResOkNoUpperLimit(status) == status >= 200

\* line 29: res.ok, a status in 200..299
ResOk(status) == status >= 200 /\ status <= 299

\* a catch that passes the read error's text on as the body
TextOrErrorText(body) == body.v

\* line 30: res.text().catch(() => '')
TextOrEmpty(body) == IF body = ReadFailed THEN "" ELSE body.v

\* line 31: new Error(`HTTP ${res.status}: ${txt}`)
HttpError(status, txt) ==
    Err("Error", "HTTP " \o ToString(status) \o ": " \o txt)

\* line 33: res.json().catch(() => ({}))
JsonOrEmpty(body) ==
    IF ParseJson(body.v).ok THEN ParseJson(body.v).data ELSE Obj(Undefined)

(***************************************************************************)
(* getWelcomeMessage (lines 39-49).                                        *)
(***************************************************************************)
\* a slot still fresh at the instant it expires
IsFreshAtExpiry(c, now) == Truthy(c.value) /\ c.expiresAt >= now

\* line 41: cache.value && cache.expiresAt > now
IsFresh(c, now) == Truthy(c.value) /\ c.expiresAt > now

\* an early return that does not look at force
UseCacheIgnoringForce(force, c, now) == IsFresh(c, now)

\* line 41: the whole condition of the early return
UseCache(force, c, now) == ~force /\ IsFresh(c, now)

\* an extraction without the default
ExtractMessageNoDefault(data) == And(data, GetMessage(data))

\* line 46: (data && data.message) || 'Welcome'
ExtractMessage(data) ==
    Or(And(data, GetMessage(data)), Str("Welcome"))

\* an entry whose time to live runs from the moment it is written
CacheEntryStampedAtWrite(message, now) ==
    [value |-> message, expiresAt |-> clock + cfg.cacheTtlMs]

\* line 47: { value: message, expiresAt: now + cfg.cacheTtlMs }
CacheEntry(message, now) ==
    [value |-> message, expiresAt |-> now + cfg.cacheTtlMs]

\* a continuation that fills the slot only when it holds no value
GetSuccessKeepsFirst(data, now) ==
    [cache |-> IF Truthy(cache.value) THEN cache
               ELSE CacheEntry(ExtractMessage(data), now),
     result |-> Resolved(ExtractMessage(data))]

\* lines 46-48: the continuation after a fetch that resolved with data
GetSuccess(data, now) ==
    [cache |-> CacheEntry(ExtractMessage(data), now),
     result |-> Resolved(ExtractMessage(data))]

\* a failure that falls back to the value stored in the slot
GetFailureFallsBack(err, c) ==
    [cache |-> c,
     result |-> IF Truthy(c.value) THEN Resolved(c.value) ELSE Rejected(err)]

\* line 45: a rejected fetch rejects the call; lines 46-48 do not run
GetFailure(err, c) == [cache |-> c, result |-> Rejected(err)]

(***************************************************************************)
(* healthCheck (lines 51-60).                                              *)
(***************************************************************************)
\* line 56
HealthUp == [ok |-> TRUE, info |-> "up", endpoint |-> cfg.apiUrl]

\* line 58: err.message || 'unreachable'
HealthDown(err) ==
    [ok |-> FALSE,
     info |-> IF err.message # "" THEN err.message ELSE "unreachable",
     endpoint |-> cfg.apiUrl]

\* a healthCheck without its catch
HealthSettleRethrows(outcome) ==
    IF outcome.kind = "resolved" THEN Resolved(HealthUp) ELSE outcome

\* lines 52-59: healthCheck settles with a result object either way
HealthSettle(outcome) ==
    IF outcome.kind = "resolved" THEN Resolved(HealthUp)
    ELSE Resolved(HealthDown(outcome.val))

\* a continuation in which a failed probe also invalidates the slot
SettleProbeInvalidates(i, outcome) ==
    IF calls[i].op = "getWelcomeMessage"
    THEN IF outcome.kind = "resolved"
         THEN GetSuccess(outcome.val, calls[i].now)
         ELSE GetFailure(outcome.val, cache)
    ELSE [cache |-> IF outcome.kind = "rejected" THEN EmptyCache ELSE cache,
          result |-> HealthSettle(outcome)]

(***************************************************************************)
(* The continuation of the method that awaits fetchWithTimeout: what call  *)
(* i and the cache become when its fetchWithTimeout settles with outcome.  *)
(***************************************************************************)
Settle(i, outcome) ==
    IF calls[i].op = "getWelcomeMessage"
    THEN IF outcome.kind = "resolved"
         THEN GetSuccess(outcome.val, calls[i].now)
         ELSE GetFailure(outcome.val, cache)
    ELSE [cache |-> cache, result |-> HealthSettle(outcome)]

\* a fetchWithTimeout that leaves its timer pending
ClearTimerMissing(call) == call

\* lines 28, 35: clearTimeout(id)
ClearTimer(call) == [call EXCEPT !.timer = FALSE]

\* call i is over: fetchWithTimeout settled with outcome, the timer is
\* cleared (lines 28, 35) and the awaiting method ran to its end
Finish(i, outcome, upd) ==
    /\ calls' = [calls EXCEPT ![i] =
            [ClearTimer(upd) EXCEPT !.pc = "done",
                        !.fetched = outcome,
                        !.result = Settle(i, outcome).result,
                        !.before = cache]]
    /\ cache' = Settle(i, outcome).cache
    /\ fetchedAt' = IF calls[i].op = "getWelcomeMessage"
                       /\ outcome.kind = "resolved"
                    THEN clock ELSE fetchedAt
    /\ justCleared' = FALSE

(***************************************************************************)
(* Tasks of the event loop.                                                *)
(***************************************************************************)
\* lines 24-27: a fetch is issued and its timer set; the method suspends
StartFetch(call, m) ==
    [call EXCEPT !.pc = "fetch", !.timer = TRUE, !.requested = TRUE,
                 !.method = m]

\* The application invokes getWelcomeMessage(force): lines 40-45.
GetWelcomeMessage(i, force) ==
    /\ Quiet
    /\ NextId(i)
    /\ LET call == [calls[i] EXCEPT !.op = "getWelcomeMessage",
                        !.force = force, !.now = clock,
                        !.saw = SlotState(cache, clock),
                        !.afterClear = justCleared]
       IN  IF UseCache(force, cache, clock)
           THEN calls' = [calls EXCEPT ![i] =
                    [call EXCEPT !.pc = "done", !.before = cache,
                                 !.result = Resolved(cache.value)]]
           ELSE calls' = [calls EXCEPT ![i] = StartFetch(call, "GET")]
    /\ justCleared' = FALSE
    /\ UNCHANGED <<input, cfg, cache, clock, fetchedAt>>

\* The application invokes healthCheck(): lines 52-54.
HealthCheck(i) ==
    /\ Quiet
    /\ NextId(i)
    /\ calls' = [calls EXCEPT ![i] =
            StartFetch([calls[i] EXCEPT !.op = "healthCheck", !.now = clock,
                            !.saw = SlotState(cache, clock),
                            !.afterClear = justCleared], "HEAD")]
    /\ justCleared' = FALSE
    /\ UNCHANGED <<input, cfg, cache, clock, fetchedAt>>

\* a clearCache that assigns to a shadowing local: the slot stays
ClearedSlotShadowed(c) == c

\* a clearCache that drops the value and keeps the expiry
ClearedSlotKeepsExpiry(c) == [c EXCEPT !.value = Null]

\* line 63: what clearCache makes of the slot c
ClearedSlot(c) == EmptyCache

\* The application invokes clearCache(): line 63.
ClearCache ==
    /\ Quiet
    /\ cache' = ClearedSlot(cache)
    /\ fetchedAt' = -1
    /\ justCleared' = TRUE
    /\ UNCHANGED <<input, cfg, clock, calls>>

\* The messages the network failure of call i can carry.  Only healthCheck
\* reads the message (line 58); getWelcomeMessage passes the error on.
FailMessages(i) ==
    IF calls[i].method = "HEAD" THEN NetMessages ELSE {"fetch failed"}

\* The bodies call i can receive: a HEAD response has an empty one.  The
\* read of a success body that fails ends like a body that does not parse;
\* the read of an error body that fails is a case of its own.
OkBodies(i) ==
    IF calls[i].method = "HEAD" THEN {Str("")}
    ELSE {Str(b) : b \in Bodies}

FailBodies(i) ==
    IF calls[i].method = "HEAD" THEN {Str("")}
    ELSE {Str(b) : b \in ErrBodies} \cup {ReadFailed}

\* every body the endpoint can send
AnyBody == {Str(b) : b \in Bodies \cup ErrBodies \cup {""}} \cup {ReadFailed}

\* The response headers of call i arrive with a status: the fetch of line 27
\* resolves, line 28 clears the timer, and the method suspends again on the
\* body (line 30 for a failure status, line 33 otherwise).
Respond(i, status) ==
    /\ Quiet
    /\ calls[i].pc = "fetch"
    /\ calls' = [calls EXCEPT ![i] =
            [ClearTimer(calls[i]) EXCEPT
                      !.pc = IF ResOk(status) THEN "json" ELSE "text",
                      !.status = status,
                      !.now = IF calls[i].op = "healthCheck" THEN 0 ELSE @,
                      !.force = FALSE, !.saw = "empty",
                      !.afterClear = FALSE]]
    /\ justCleared' = FALSE
    /\ UNCHANGED <<input, cfg, cache, clock, fetchedAt>>

\* The fetch of call i fails at the network level (line 27 rejects with a
\* TypeError); the finally block clears the timer (line 35).
NetworkFail(i, msg) ==
    /\ Quiet
    /\ calls[i].pc = "fetch"
    /\ msg \in FailMessages(i)
    /\ Finish(i, Rejected(Err("TypeError", msg)), calls[i])
    /\ UNCHANGED <<input, cfg, clock>>

\* The timer of call i fires (line 25): controller.abort() rejects the
\* pending fetch of line 27 with an AbortError.
Timeout(i) ==
    /\ Quiet
    /\ calls[i].pc = "fetch"
    /\ calls[i].timer
    /\ clock >= TimerDeadline(calls[i].now)
    /\ Finish(i, Rejected(AbortError), [calls[i] EXCEPT !.aborted = TRUE])
    /\ UNCHANGED <<input, cfg, clock>>

\* The body of a failure response has been read, or its read failed
\* (line 30); line 31 throws.
ErrorBody(i, body) ==
    /\ Quiet
    /\ calls[i].pc = "text"
    /\ body \in FailBodies(i)
    /\ Finish(i, Rejected(HttpError(calls[i].status, TextOrEmpty(body))),
              [calls[i] EXCEPT !.body = body])
    /\ UNCHANGED <<input, cfg, clock>>

\* The body of a success response has been read and parsed, or that failed
\* (line 33); fetchWithTimeout resolves with the data.
JsonBody(i, body) ==
    /\ Quiet
    /\ calls[i].pc = "json"
    /\ body \in OkBodies(i)
    /\ Finish(i, Resolved(JsonOrEmpty(body)), [calls[i] EXCEPT !.body = body])
    /\ UNCHANGED <<input, cfg, clock>>

\* The caller of call i receives the outcome of the promise it holds
\* (lines 42, 48, 56, 58, or the rejection of line 45); the activation is
\* over and its record is dropped.
Return(i) ==
    /\ calls[i].pc = "done"
    /\ calls' = [calls EXCEPT ![i] = ReturnedCall]
    /\ UNCHANGED <<input, cfg, cache, clock, fetchedAt, justCleared>>

\* Time passes.  The event loop runs a timer that is due before the clock
\* moves on: no timer is pending past its deadline.
Tick ==
    /\ Quiet
    /\ clock < MaxTime
    /\ \A i \in CallIds :
          ~(calls[i].timer /\ clock >= TimerDeadline(calls[i].now))
    /\ clock' = clock + 1
    /\ UNCHANGED <<input, cfg, cache, calls, fetchedAt, justCleared>>

Next ==
    \/ \E i \in CallIds, force \in BOOLEAN : GetWelcomeMessage(i, force)
    \/ \E i \in CallIds : HealthCheck(i)
    \/ ClearCache
    \/ \E i \in CallIds, status \in Statuses : Respond(i, status)
    \/ \E i \in CallIds, msg \in NetMessages : NetworkFail(i, msg)
    \/ \E i \in CallIds : Timeout(i)
    \/ \E i \in CallIds, body \in AnyBody : ErrorBody(i, body)
    \/ \E i \in CallIds, body \in AnyBody : JsonBody(i, body)
    \/ \E i \in CallIds : Return(i)
    \/ Tick

Spec == Init /\ [][Next]_vars

\* What the runtime guarantees of itself: a timer that is due fires, a
\* settled promise reaches its caller, and time passes.  Nothing is assumed
\* of the network: headers and bodies may never arrive.
Fairness ==
    /\ \A i \in CallIds : WF_vars(Timeout(i))
    /\ \A i \in CallIds : WF_vars(Return(i))
    /\ WF_vars(Tick)

FairSpec == Init /\ [][Next]_vars /\ Fairness

(***************************************************************************)
(* Observers used by the properties below.  They are written from the      *)
(* claims, not from the operators that model the code.                     *)
(***************************************************************************)
IsGet(i) == calls[i].op = "getWelcomeMessage"
IsHealth(i) == calls[i].op = "healthCheck"
Settled(i) == calls[i].pc = "done"
InFlight(i) == calls[i].pc \in {"fetch", "text", "json"}
\* the invocation of getWelcomeMessage(force) as call j is this step
Invokes(j, force) ==
    /\ calls[j].pc = "idle"
    /\ calls'[j].op = "getWelcomeMessage"
    /\ calls'[j].force = force
\* call j answered from the slot, without a request
CacheHit(j) == IsGet(j) /\ Settled(j) /\ ~calls[j].requested
\* the fetch of call i failed / succeeded
FetchFailed(i) == Settled(i) /\ calls[i].fetched.kind = "rejected"
FetchSucceeded(i) == Settled(i) /\ calls[i].fetched.kind = "resolved"
Non2xx(status) == status # 0 /\ ~(status \in 200..299)

(* C1: after a getWelcomeMessage fetch has completed successfully, every
   getWelcomeMessage(false) invoked within cacheTtlMs of that completion,
   with no clearCache in between, returns the cached value and issues no
   request.  (fetchedAt >= 0 says that a fetch succeeded and no clearCache
   ran since.) *)
C1_HitWithinTtlOfFetch ==
    [][\A j \in CallIds :
          (Invokes(j, FALSE) /\ fetchedAt >= 0
             /\ clock < fetchedAt + cfg.cacheTtlMs)
          => (/\ calls'[j].pc = "done"
              /\ ~calls'[j].requested
              /\ calls'[j].result = Resolved(cache.value)
              /\ cache.value # Null)]_vars

(* C2: when the fetch of a getWelcomeMessage call fails, the task that
   settles the call leaves the slot (value and expiry) as it found it, and
   the call rejects with the error of the fetch: it never resolves with a
   value, also when an expired value is still stored. *)
C2_FailureLeavesSlotAndPropagates ==
    \A i \in CallIds :
        (IsGet(i) /\ FetchFailed(i))
        => (/\ cache = calls[i].before
            /\ calls[i].result.kind = "rejected"
            /\ calls[i].result.val = calls[i].fetched.val)

C2_Witness ==
    \E i \in CallIds :
        /\ IsGet(i) /\ FetchFailed(i)
        /\ calls[i].result.kind = "rejected"
        /\ cache.value # Null /\ cache.expiresAt <= clock

(* C3: a request whose response has not arrived when timeoutMs has elapsed
   is aborted and its getWelcomeMessage call rejects with the abort
   (timeout) error: no call waits for a response past its timeout, and an
   aborted call has no value. *)
C3_TimeoutAborts ==
    \A i \in CallIds :
        /\ calls[i].pc = "fetch" => clock <= calls[i].now + cfg.timeoutMs
        /\ calls[i].aborted
           => (/\ Settled(i)
               /\ calls[i].status = 0
               /\ clock >= calls[i].now + cfg.timeoutMs
               /\ calls[i].fetched = Rejected(AbortError)
               /\ IsGet(i) => calls[i].result = Rejected(AbortError))

C3_Witness ==
    \E i \in CallIds :
        /\ IsGet(i) /\ calls[i].aborted /\ Settled(i)
        /\ calls[i].result = Rejected(AbortError)
        /\ clock = calls[i].now + cfg.timeoutMs

(* C4: a getWelcomeMessage call whose response has a non-2xx status rejects
   with an error whose message holds that status, "HTTP <status>: <body>",
   and the slot is what it was before the call settled (empty if it was
   empty). *)
C4_HttpErrorCarriesStatus ==
    \A i \in CallIds :
        (IsGet(i) /\ Settled(i) /\ Non2xx(calls[i].status))
        => (/\ calls[i].result.kind = "rejected"
            /\ \E txt \in ErrBodies \cup {""} :
                  calls[i].result.val.message =
                      "HTTP " \o ToString(calls[i].status) \o ": " \o txt
            /\ cache = calls[i].before)

C4_Witness ==
    \E i \in CallIds :
        /\ IsGet(i) /\ Settled(i) /\ calls[i].status = 404
        /\ calls[i].result.val.message = "HTTP 404: Not Found"
        /\ calls[i].before = [value |-> Null, expiresAt |-> 0]
        /\ cache = [value |-> Null, expiresAt |-> 0]

(* C5: healthCheck never rejects: whatever the probe's outcome, the call
   resolves with {ok: true, info: "up", endpoint} when the probe completed
   without error and with {ok: false, info: the error's message or
   "unreachable", endpoint} when it failed, endpoint being cfg.apiUrl. *)
C5_HealthCheckNeverRaises ==
    \A i \in CallIds :
        (IsHealth(i) /\ Settled(i))
        => (/\ calls[i].result.kind = "resolved"
            /\ calls[i].result.val.endpoint = cfg.apiUrl
            /\ FetchSucceeded(i)
               => (calls[i].result.val.ok /\ calls[i].result.val.info = "up")
            /\ FetchFailed(i)
               => (/\ ~calls[i].result.val.ok
                   /\ calls[i].result.val.info =
                        IF calls[i].fetched.val.message = "" THEN "unreachable"
                        ELSE calls[i].fetched.val.message))

C5_Witness ==
    \E i \in CallIds :
        /\ IsHealth(i) /\ Settled(i) /\ FetchFailed(i)
        /\ calls[i].result.kind = "resolved"
        /\ ~calls[i].result.val.ok
        /\ calls[i].result.val.info = "unreachable"

(* C6: a getWelcomeMessage(false) invoked right after clearCache issues a
   request, whatever the slot was before clearCache and whatever else is in
   flight. *)
C6_ClearThenGetFetches ==
    \A j \in CallIds :
        (IsGet(j) /\ ~calls[j].force /\ calls[j].afterClear)
        => (calls[j].requested /\ ~CacheHit(j))

C6_Witness ==
    \E j, k \in CallIds :
        /\ j # k
        /\ IsGet(j) /\ ~calls[j].force /\ calls[j].afterClear
        /\ calls[j].requested /\ calls[j].pc = "fetch"
        /\ InFlight(k) /\ IsGet(k)

(* C7: getWelcomeMessage(true) issues a request in every state of the slot
   and is never answered from the slot. *)
C7_ForceAlwaysFetches ==
    \A j \in CallIds :
        (IsGet(j) /\ calls[j].force) => (calls[j].requested /\ ~CacheHit(j))

C7_Witness ==
    \E j \in CallIds :
        /\ IsGet(j) /\ calls[j].force /\ calls[j].saw = "fresh"
        /\ calls[j].requested /\ calls[j].pc = "fetch"

(* C8: a getWelcomeMessage(false) invoked when the stored value's TTL has
   elapsed (the time is at or past the slot's expiry) issues a request and
   is not answered from the slot. *)
C8_ExpiredSlotFetches ==
    \A j \in CallIds :
        (IsGet(j) /\ ~calls[j].force /\ calls[j].saw = "stale")
        => (calls[j].requested /\ ~CacheHit(j))

C8_Witness ==
    \E j \in CallIds :
        /\ IsGet(j) /\ ~calls[j].force /\ calls[j].saw = "stale"
        /\ calls[j].requested /\ calls[j].pc = "fetch"
        /\ calls[j].now = cache.expiresAt

\* the message the claims expect for a body
ExpectedMessage(body) ==
    IF body = Str(BodyHi) THEN Str("Hi there") ELSE Str("Welcome")

(* C9: a getWelcomeMessage call whose fetch succeeded returns the body's
   message when it is present and truthy ("Hi there" for
   {"message":"Hi there"}) and "Welcome" when the body omits message, has a
   falsy message or does not parse; the value returned is the value the
   slot then holds. *)
C9_MessageOrWelcomeIsCached ==
    \A i \in CallIds :
        (IsGet(i) /\ FetchSucceeded(i))
        => (/\ calls[i].result = Resolved(ExpectedMessage(calls[i].body))
            /\ cache.value = calls[i].result.val)

C9_Witness ==
    \E i \in CallIds :
        /\ IsGet(i) /\ FetchSucceeded(i)
        /\ calls[i].body = Str(BodyHtml)
        /\ calls[i].result = Resolved(Str("Welcome"))
        /\ cache.value = Str("Welcome")

(* C10: on a successful fetch the slot holds the extracted message and an
   expiry equal to the time at which the slot is overwritten plus
   cacheTtlMs. *)
C10_ExpiryFromOverwriteTime ==
    \A i \in CallIds :
        (IsGet(i) /\ FetchSucceeded(i))
        => cache = [value |-> calls[i].result.val,
                    expiresAt |-> clock + cfg.cacheTtlMs]

(* C11: concurrent getWelcomeMessage callers during a cache miss are not
   coalesced.  Every caller that finds the slot empty or stale issues its
   own request, whatever is already in flight, so as many requests are out
   as there are such callers; and a caller whose fetch succeeds overwrites
   the slot with its own entry whatever the slot held, so the slot holds
   the result of the caller whose fetch completed last. *)
C11_NoCoalescing ==
    /\ \A j \in CallIds :
          (IsGet(j) /\ calls[j].saw # "fresh") => calls[j].requested
    /\ Cardinality({j \in CallIds : IsGet(j) /\ InFlight(j)})
          = Cardinality({j \in CallIds :
                            IsGet(j) /\ InFlight(j) /\ calls[j].requested})
    /\ \A i \in CallIds :
          (IsGet(i) /\ FetchSucceeded(i))
          => (/\ cache.value = calls[i].result.val
              /\ cache.expiresAt = calls[i].now + cfg.cacheTtlMs)

\* two callers missed the slot at the same time, both have a request out,
\* and the one that completed first has written the slot
C11_Witness ==
    \E i, j \in CallIds :
        /\ i # j
        /\ IsGet(j) /\ calls[j].pc = "fetch" /\ ~calls[j].force
        /\ calls[j].saw = "empty" /\ calls[j].requested
        /\ IsGet(i) /\ FetchSucceeded(i) /\ calls[i].requested
        /\ calls[i].before = [value |-> Null, expiresAt |-> 0]
        /\ cache.value = calls[i].result.val

(* C12: the timeout timer is always released.  A timer is pending only
   while its request waits for the response headers; once fetchWithTimeout
   has completed, by returning or by throwing, its timer is not pending;
   so the pending timers are never more than the requests in flight. *)
C12_TimerReleased ==
    /\ \A i \in CallIds : calls[i].timer => calls[i].pc = "fetch"
    /\ \A i \in CallIds : Settled(i) => ~calls[i].timer
    /\ Cardinality({i \in CallIds : calls[i].timer})
          <= Cardinality({i \in CallIds : InFlight(i)})

\* a fetchWithTimeout has thrown while another request is still out
C12_Witness ==
    \E i, j \in CallIds :
        /\ Settled(i) /\ FetchFailed(i) /\ ~calls[i].timer
        /\ calls[j].pc = "fetch" /\ calls[j].timer

(* C13: healthCheck is independent of the cache.  Every invocation issues
   a HEAD request, also when the slot is fresh, and neither the invocation
   nor the settling of the probe, successful or failed, changes the slot;
   the only steps that change the slot are the successful fetch of a
   getWelcomeMessage call and clearCache. *)
C13_HealthCheckLeavesSlot ==
    [][ /\ \A i \in CallIds :
              (calls[i].pc = "idle" /\ calls'[i].op = "healthCheck")
              => (/\ calls'[i].pc = "fetch" /\ calls'[i].requested
                  /\ calls'[i].method = "HEAD"
                  /\ cache' = cache)
        /\ \A i \in CallIds :
              (IsHealth(i) /\ InFlight(i) /\ calls'[i].pc = "done")
              => cache' = cache
        /\ cache' # cache
              => \/ cache' = [value |-> Null, expiresAt |-> 0]
                    /\ justCleared' /\ calls' = calls
                 \/ \E i \in CallIds :
                       /\ IsGet(i) /\ InFlight(i)
                       /\ calls'[i].pc = "done"
                       /\ calls'[i].fetched.kind = "resolved" ]_vars

\* a probe issued while the slot was fresh has settled, and the slot is the
\* populated slot it found
C13_Witness ==
    \E i \in CallIds :
        /\ IsHealth(i) /\ Settled(i)
        /\ calls[i].saw = "fresh" /\ calls[i].requested
        /\ calls[i].method = "HEAD"
        /\ cache.value # Null /\ cache = calls[i].before

\* a number other than NaN
WellFormed(x) == x.t = "number" /\ x.v # "NaN"

(* C14: the effective configuration is the defaults overridden by the
   explicit arguments of initServices, and a malformed numeric input for
   timeoutMs or cacheTtlMs (non-numeric text, NaN, undefined) falls back to
   the default instead of reaching the effective configuration, whether it
   comes from the environment or from the config argument: an explicit
   well-formed number is taken; otherwise the field is the default of the
   environment, which is 5000 resp. 30000 when the environment variable is
   malformed too. *)
C14_MalformedFallsBack ==
    cfg # Unbuilt =>
        /\ cfg.apiUrl = IF input.arg.apiUrl # Absent THEN input.arg.apiUrl
                        ELSE DEFAULT_CONFIG(input.env).apiUrl
        /\ \A f \in {"timeoutMs", "cacheTtlMs"} :
              /\ WellFormed(cfg[f])
              /\ cfg[f] = IF WellFormed(input.arg[f]) THEN input.arg[f]
                          ELSE DEFAULT_CONFIG(input.env)[f]
        /\ (~WellFormed(input.arg.timeoutMs)
              /\ ~WellFormed(ToNumber(input.env.SERVICE_TIMEOUT_MS)))
              => cfg.timeoutMs = Num(DefaultTimeoutMs)
        /\ (~WellFormed(input.arg.cacheTtlMs)
              /\ ~WellFormed(ToNumber(input.env.CACHE_TTL_MS)))
              => cfg.cacheTtlMs = Num(DefaultCacheTtlMs)

(* C15: on the failure-status path, when reading the response body fails,
   the body text is the empty string and fetchWithTimeout still throws the
   HTTP status error, "HTTP <status>: " with nothing after it: the read
   failure neither replaces the status error nor shows in it.
   getWelcomeMessage rejects with that very error. *)
C15_BodyReadFailureKeepsStatus ==
    \A i \in CallIds :
        (Settled(i) /\ Non2xx(calls[i].status) /\ calls[i].body = ReadFailed)
        => (/\ calls[i].fetched.kind = "rejected"
            /\ calls[i].fetched.val.name = "Error"
            /\ calls[i].fetched.val.message =
                  "HTTP " \o ToString(calls[i].status) \o ": "
            /\ IsGet(i) => calls[i].result = calls[i].fetched)

\* a 404 whose body could not be read has been turned into the status error
C15_Witness ==
    \E i \in CallIds :
        /\ IsGet(i) /\ Settled(i) /\ calls[i].status = 404
        /\ calls[i].body = ReadFailed
        /\ calls[i].result.kind = "rejected"
        /\ calls[i].result.val.message = "HTTP 404: "

(* C16: every getWelcomeMessage and healthCheck invocation eventually
   completes, by returning or failing, when nothing more is assumed than
   that a pending timer fires: a call that has issued its request (with a
   timer due within the time the model covers) is eventually settled, also
   when the response headers arrive in time and the body never does. *)
C16_EveryCallCompletes ==
    \A i \in CallIds :
        (calls[i].pc = "fetch" /\ TimerDeadline(calls[i].now) <= MaxTime)
        ~> (calls[i].pc \in {"done", "returned"})

(* C17: a fetch in flight when clearCache is called does not repopulate
   the cache: after clearCache the slot stays empty until a
   getWelcomeMessage call invoked after that clearCache completes
   successfully.  Stated for the task that follows clearCache at once: a
   call that settles in it was in flight, hence invoked before clearCache,
   and so it leaves the slot empty. *)
C17_InFlightFetchLeavesClearedSlot ==
    [][ \A i \in CallIds :
            (justCleared /\ IsGet(i) /\ InFlight(i) /\ calls'[i].pc = "done")
            => cache' = [value |-> Null, expiresAt |-> 0] ]_vars

(* C18: under overlapping getWelcomeMessage calls a successful fetch never
   moves the slot backwards: the expiry of the slot never decreases as the
   result of a successful fetch, and the result of a call that started
   earlier never replaces the entry stored by a call that started later.
   (The entry the settling task found was stored by a call that started at
   its expiry minus the time to live.) *)
C18_NeverMovesBackwards ==
    \A i \in CallIds :
        (IsGet(i) /\ FetchSucceeded(i))
        => (/\ cache.expiresAt >= calls[i].before.expiresAt
            /\ calls[i].before.value # Null
                  => calls[i].before.expiresAt - cfg.cacheTtlMs
                        <= calls[i].now)

(* C18, amended: a successful fetch overwrites the slot with its own entry
   whatever the slot holds, its expiry counted from the call's own start.
   The expiry of the slot decreases as the result of a successful fetch
   exactly when the entry it replaces was stored by a call that started
   later, and the result of the earlier call then does replace it. *)
C18_BackwardsOnlyOverLaterCall ==
    \A i \in CallIds :
        (IsGet(i) /\ FetchSucceeded(i))
        => (/\ cache.expiresAt = calls[i].now + cfg.cacheTtlMs
            /\ cache.value = calls[i].result.val
            /\ cache.expiresAt < calls[i].before.expiresAt
                  <=> (/\ calls[i].before.value # Null
                       /\ calls[i].before.expiresAt - cfg.cacheTtlMs
                             > calls[i].now))

\* the result of a call that started earlier has replaced a different
\* result stored by a call that started later, and the expiry went back
C18_Witness ==
    \E i \in CallIds :
        /\ IsGet(i) /\ FetchSucceeded(i)
        /\ calls[i].before.value # Null
        /\ calls[i].before.expiresAt - cfg.cacheTtlMs > calls[i].now
        /\ cache.expiresAt < calls[i].before.expiresAt
        /\ cache.value # calls[i].before.value
        /\ cache.value = calls[i].result.val

(* C19: in every reachable state the slot is either empty, value null and
   expiry 0, or holds a truthy, non-empty value that a successful fetch
   wrote (and no clearCache removed since); hence a call answered from the
   slot never returns null or the empty string. *)
C19_SlotEmptyOrTruthy ==
    /\ \/ cache = [value |-> Null, expiresAt |-> 0] /\ fetchedAt = -1
       \/ /\ cache.value \notin {Null, Undefined, Str("")}
          /\ Truthy(cache.value)
          /\ fetchedAt >= 0
    /\ \A j \in CallIds :
          CacheHit(j)
          => (/\ calls[j].result.kind = "resolved"
              /\ calls[j].result.val \notin {Null, Undefined, Str("")}
              /\ calls[j].result.val = cache.value)

\* a call has been answered from the slot with the default greeting that
\* a successful fetch stored there
C19_Witness ==
    \E j \in CallIds :
        /\ CacheHit(j)
        /\ calls[j].result.val = Str("Welcome")
        /\ cache.value = Str("Welcome")
        /\ fetchedAt >= 0

=============================================================================
